---- MODULE Spec2Model ----
(***************************************************************************)
(* Domain-expiry core of uptime-kuma: server/model/domain_expiry.js and    *)
(* the domain-expiry monitor type.                                         *)
(*                                                                         *)
(* Time is counted in ticks, TicksPerDay of them to a day, so that an      *)
(* instant, a 24-hour difference and a UTC calendar day are three          *)
(* different things.  JavaScript values are records [k, t]: k is the kind  *)
(* of the value and t the instant it denotes (0 when it denotes none).     *)
(***************************************************************************)
EXTENDS Integers, Sequences, FiniteSets, TLC

TicksPerDay == 2
MaxNow == 4

\* ------------------------------------------------------------ JS values
Undefined == [k |-> "undefined", t |-> 0]
Null == [k |-> "null", t |-> 0]
\* a Date object holding instant n, and the Date object `new Date(NaN)`
DateObj(n) == [k |-> "Date", t |-> n]
InvalidDateObj == [k |-> "InvalidDateObject", t |-> 0]
\* the text of a date-time denoting instant n, and the text "Invalid Date"
DateText(n) == [k |-> "string", t |-> n]
InvalidDateText == [k |-> "InvalidDateString", t |-> 0]
\* a text that is no date
OtherText == [k |-> "text", t |-> 0]
Num(n) == [k |-> "number", t |-> n]

\* JavaScript truthiness: undefined, null and the number 0 are falsy; every
\* non-empty text and every object is truthy.
Truthy(v) ==
    CASE v.k = "undefined" -> FALSE
      [] v.k = "null" -> FALSE
      [] v.k = "number" -> v.t # 0
      [] OTHER -> TRUE

\* new Date(value): a Date object; invalid unless the value is a date text.
NewDate(v) ==
    CASE v.k = "string" -> DateObj(v.t)
      [] v.k = "Date" -> v
      [] OTHER -> InvalidDateObj

\* Number.isNaN(date.getTime())
IsNaNTime(d) == d.k # "Date"

\* dayjs.utc(x): [valid, t].  dayjs.utc(undefined) is the current instant,
\* dayjs.utc(null) and the parse of "Invalid Date" are invalid.
DayjsUtc(v, now) ==
    CASE v.k = "undefined" -> [valid |-> TRUE, t |-> now]
      [] v.k = "Date" -> [valid |-> TRUE, t |-> v.t]
      [] v.k = "string" -> [valid |-> TRUE, t |-> v.t]
      [] OTHER -> [valid |-> FALSE, t |-> 0]

\* a.diff(b, "day"): the difference in days truncated toward zero; NaN when
\* either side is invalid.
DayjsDiffDay(a, b) ==
    IF ~(a.valid /\ b.valid) THEN [isNaN |-> TRUE, n |-> 0]
    ELSE LET x == a.t - b.t
         IN  [isNaN |-> FALSE,
              n |-> IF x >= 0 THEN x \div TicksPerDay ELSE -((-x) \div TicksPerDay)]

\* a.isAfter(b): false when either side is invalid.
DayjsIsAfter(a, b) == a.valid /\ b.valid /\ a.t > b.t

\* R.isoDateTimeMillis(x) = dayjs(x).format("YYYY-MM-DD HH:mm:ss.SSS"): a text,
\* never a Date; dayjs(null) and an invalid Date format as "Invalid Date",
\* dayjs(undefined) is the current instant.
IsoDateTimeMillis(v, now) ==
    CASE v.k = "Date" -> DateText(v.t)
      [] v.k = "string" -> DateText(v.t)
      [] v.k = "undefined" -> DateText(now)
      [] OTHER -> InvalidDateText

\* the UTC calendar day of an instant
UtcDay(n) == n \div TicksPerDay

\* ------------------------------------------------- WHOIS query and extractor
WHOIS_EXPIRY_KEYS ==
    {"Registrar Registration Expiration Date", "Registry Expiry Date",
     "Expiration Time", "paid-till"}

\* String(param.attribute || "").trim(), on the attribute names used here
Trim(a) ==
    CASE a = "  paid-till" -> "paid-till"
      [] OTHER -> a

NoInfo == [k |-> "null", m |-> <<>>]
UnsetInfo == [k |-> "undefined", m |-> <<>>]

\* whoisInfo[param.attribute] = param.value
PutInfo(m, a, v) == [x \in (DOMAIN m) \cup {a} |-> IF x = a THEN v ELSE m[x]]

\* the for loop over the parsed WHOIS data, from entry i on: every entry with
\* a known expiry key assigns paidTillDate, every entry is stored in whoisInfo
RECURSIVE WhoisLoop(_, _, _, _)
WhoisLoop(data, i, paidTillDate, whoisInfo) ==
    IF i > Len(data) THEN [paidTillDate |-> paidTillDate, whoisInfo |-> whoisInfo]
    ELSE WhoisLoop(data, i + 1,
                   IF Trim(data[i].attribute) \in WHOIS_EXPIRY_KEYS
                   THEN NewDate(data[i].value) ELSE paidTillDate,
                   PutInfo(whoisInfo, data[i].attribute, data[i].value))

\* the test without its Number.isNaN half
NoPaidTillDateUnchecked(paidTillDate) == ~Truthy(paidTillDate)

\* the `!paidTillDate || Number.isNaN(paidTillDate.getTime())` test
NoPaidTillDate(paidTillDate) == ~Truthy(paidTillDate) \/ IsNaNTime(paidTillDate)

\* answer is what whois.lookup hands to its callback: err, or the data as
\* parse-whois splits it into attribute/value entries
getWhoisDomainExpiryDate(answer) ==
    IF answer.err THEN [expiryDate |-> Null, whoisInfo |-> NoInfo]
    ELSE LET r == WhoisLoop(answer.data, 1, Undefined, <<>>)
             info == [k |-> "object", m |-> r.whoisInfo]
         IN  IF NoPaidTillDate(r.paidTillDate)
             THEN [expiryDate |-> Null, whoisInfo |-> info]
             ELSE [expiryDate |-> r.paidTillDate, whoisInfo |-> info]

\* ------------------------------------------------------ the domain_expiry table
\* A bean: id 0 is a bean R.dispense made and R.store has not yet inserted.
NoBean ==
    [id |-> -1, domain |-> "", expiry |-> Undefined, lastCheck |-> Undefined,
     lastExpiryNotificationSent |-> Undefined, whois_info |-> UnsetInfo]

\* R.findOne("domain_expiry", "domain = ?", [domain]): the first such row, or null
findByName(rows, domain) ==
    LET hits == {i \in 1..Len(rows) : rows[i].domain = domain}
    IN  IF hits = {} THEN NoBean
        ELSE rows[CHOOSE i \in hits : \A j \in hits : i <= j]

createByName(domain) == [NoBean EXCEPT !.id = 0, !.domain = domain]

findByDomainNameOrCreate(rows, domainName) ==
    LET domain == findByName(rows, domainName)
    IN  IF domain = NoBean /\ domainName # "" THEN createByName(domainName) ELSE domain

\* a column never assigned reads back as null
Column(v) == IF v.k = "undefined" THEN [v EXCEPT !.k = "null"] ELSE v

\* R.store taking every bean for a new one
StoreAsNew(rows, bean) == Append(rows, [bean EXCEPT !.id = Len(rows) + 1])

\* R.store(bean): insert a dispensed bean, update the row of a loaded one
Store(rows, bean) ==
    LET row == [bean EXCEPT !.expiry = Column(bean.expiry),
                            !.lastCheck = Column(bean.lastCheck),
                            !.lastExpiryNotificationSent = Column(bean.lastExpiryNotificationSent),
                            !.whois_info = Column(bean.whois_info)]
    IN  IF bean.id = 0 THEN Append(rows, [row EXCEPT !.id = Len(rows) + 1])
        ELSE [i \in 1..Len(rows) |-> IF rows[i].id = bean.id THEN row ELSE rows[i]]

\* get daysRemaining(): dayjs.utc(this.expiry).diff(dayjs.utc(), "day")
daysRemaining(bean, now) == DayjsDiffDay(DayjsUtc(bean.expiry, now), DayjsUtc(Undefined, now))

\* ------------------------------------------------------------- checkExpiry
\* the comparison off by one: ... < 0
CheckedRecentlyOffByOne(lastCheck, now) ==
    LET d == DayjsDiffDay(DayjsUtc(lastCheck, now), DayjsUtc(Undefined, now))
    IN  ~d.isNaN /\ d.n < 0

\* dayjs.utc(bean.lastCheck).diff(dayjs.utc(), "day") < 1
CheckedRecently(lastCheck, now) ==
    LET d == DayjsDiffDay(DayjsUtc(lastCheck, now), DayjsUtc(Undefined, now))
    IN  ~d.isNaN /\ d.n < 1

\* the guard of the throttle branch: bean?.lastCheck && ... < 1
Throttled(bean, now) ==
    bean # NoBean /\ Truthy(bean.lastCheck) /\ CheckedRecently(bean.lastCheck, now)

\* the renewal test with an expiry that is the same taken for a renewal
IsRenewalOrSame(expiryDate, bean, now) ==
    LET a == DayjsUtc(expiryDate, now)
        b == DayjsUtc(bean.expiry, now)
    IN  a.valid /\ b.valid /\ a.t >= b.t

\* dayjs.utc(expiryDate).isAfter(dayjs.utc(bean.expiry))
IsRenewal(expiryDate, bean, now) ==
    DayjsIsAfter(DayjsUtc(expiryDate, now), DayjsUtc(bean.expiry, now))

\* whoisInfo ? JSON.stringify(whoisInfo) : null
StringifyInfo(whoisInfo) ==
    IF whoisInfo.k = "object" THEN [whoisInfo EXCEPT !.k = "json"] ELSE NoInfo

\* the bean as checkExpiry stores it after a query
Refreshed(bean, result, now) ==
    [bean EXCEPT
        !.lastExpiryNotificationSent =
            IF IsRenewal(result.expiryDate, bean, now) THEN Null ELSE @,
        !.expiry = IsoDateTimeMillis(result.expiryDate, now),
        !.lastCheck = IsoDateTimeMillis(Undefined, now),
        !.whois_info = StringifyInfo(result.whoisInfo)]

\* what checkExpiry returns after the two branches
Returned(expiryDate) == IF expiryDate = Null THEN Undefined ELSE expiryDate

\* checkExpiry(domainName) on the table rows at instant now, answer being what
\* the WHOIS server answers if it is asked: the table afterwards, the value
\* returned, and whether the WHOIS server was asked
checkExpiry(rows, now, domainName, answer) ==
    LET bean == findByDomainNameOrCreate(rows, domainName)
    IN  IF Throttled(bean, now)
        THEN [rows |-> rows, ret |-> bean.expiry, queried |-> FALSE]
        ELSE IF bean # NoBean
        THEN LET result == getWhoisDomainExpiryDate(answer)
             IN  [rows |-> Store(rows, Refreshed(bean, result, now)),
                  ret |-> Returned(result.expiryDate), queried |-> TRUE]
        ELSE [rows |-> rows, ret |-> Undefined, queried |-> FALSE]

\* ------------------------------------------------------- sendNotifications
\* The domainExpiryNotifyDays setting: [k, a], a the list when k = "array".
NoSetting == [k |-> "null", a |-> <<>>]
ArraySetting(a) == [k |-> "array", a |-> a]
DefaultNotifyDays == <<7, 14, 21>>

\* the test without its Array.isArray half
NeedsDefaultNullOnly(notifyDays) == notifyDays.k = "null"

\* the default taken in every cycle
NeedsDefaultAlways(notifyDays) == TRUE

\* notifyDays == null || !Array.isArray(notifyDays)
NeedsDefault(notifyDays) == notifyDays.k # "array"

\* seq with x inserted before the first element greater than x
RECURSIVE InsertAsc(_, _)
InsertAsc(seq, x) ==
    IF seq = <<>> THEN <<x>>
    ELSE IF x < Head(seq) THEN <<x>> \o seq
    ELSE <<Head(seq)>> \o InsertAsc(Tail(seq), x)

RECURSIVE SortedPrefix(_, _)
SortedPrefix(seq, n) ==
    IF n = 0 THEN <<>> ELSE InsertAsc(SortedPrefix(seq, n - 1), seq[n])

\* the list left in the order it is configured in
SortAscOmitted(seq) == seq

\* notifyDays.sort((a, b) => a - b)
SortAsc(seq) == SortedPrefix(seq, Len(seq))

\* The outcome of the sends of one call: at each of the first failFirst
\* thresholds a send is attempted for, Notification.send throws for every
\* provider; from then on it succeeds for the providers at the positions okSet.
OkAt(outcome, attempt) == IF attempt <= outcome.failFirst THEN {} ELSE outcome.okSet

\* the sends made, but `sent` never set
sendDomainNotificationNeverSent(targetDays, notificationList, okSet) ==
    [sent |-> FALSE,
     sends |-> [p \in 1..Len(notificationList) |->
                  [targetDays |-> targetDays, provider |-> notificationList[p],
                   ok |-> p \in okSet]]]

\* the loop over the providers left at the first send that fails
sendDomainNotificationStopAtFailure(targetDays, notificationList, okSet) ==
    LET n == Len(notificationList)
        failing == {p \in 1..n : p \notin okSet}
        upto == IF failing = {} THEN n ELSE CHOOSE p \in failing : \A q \in failing : p <= q
    IN  [sent |-> \E p \in 1..upto : p \in okSet,
         sends |-> [p \in 1..upto |->
                      [targetDays |-> targetDays, provider |-> notificationList[p],
                       ok |-> p \in okSet]]]

\* sendDomainNotificationByTargetDays: one send per provider of the list, in
\* order, a failure caught and logged; sent when any send succeeded
sendDomainNotificationByTargetDays(targetDays, notificationList, okSet) ==
    [sent |-> \E p \in 1..Len(notificationList) : p \in okSet,
     sends |-> [p \in 1..Len(notificationList) |->
                  [targetDays |-> targetDays, provider |-> notificationList[p],
                   ok |-> p \in okSet]]]

\* daysRemaining > targetDays (false when daysRemaining is NaN)
NotYetDue(days, targetDays) == ~days.isNaN /\ days.n > targetDays

\* lastSent && lastSent <= targetDays
SentAlready(lastSent, targetDays) == Truthy(lastSent) /\ lastSent.t <= targetDays

\* the for loop over the sorted notifyDays, from position i on; attempt counts
\* the thresholds a send was attempted for, sends collects the sends made
RECURSIVE NotifyLoop(_, _, _, _, _, _, _, _)
NotifyLoop(notifyDays, i, attempt, days, lastSent, notificationList, outcome, sends) ==
    IF i > Len(notifyDays) THEN [sent |-> FALSE, targetDays |-> 0, sends |-> sends]
    ELSE LET targetDays == notifyDays[i]
         IN  IF NotYetDue(days, targetDays) \/ SentAlready(lastSent, targetDays)
             THEN NotifyLoop(notifyDays, i + 1, attempt, days, lastSent,
                             notificationList, outcome, sends)
             ELSE LET r == sendDomainNotificationByTargetDays(
                               targetDays, notificationList, OkAt(outcome, attempt))
                  IN  IF r.sent
                      THEN [sent |-> TRUE, targetDays |-> targetDays,
                            sends |-> sends \o r.sends]
                      ELSE NotifyLoop(notifyDays, i + 1, attempt + 1, days, lastSent,
                                      notificationList, outcome, sends \o r.sends)

\* !domain.expiry || isNaN(new Date(domain.expiry).getTime())
NoValidExpiry(bean) == ~Truthy(bean.expiry) \/ IsNaNTime(NewDate(bean.expiry))

\* sendNotifications(domainName, notificationList): the table and the setting
\* afterwards, the value returned, the error thrown ("" when none), the sends
\* made, and the thresholds and days remaining the loop ran with
sendNotifications(rows, setting, now, domainName, notificationList, outcome) ==
    LET domain == findByDomainNameOrCreate(rows, domainName)
        quiet == [rows |-> rows, setting |-> setting, ret |-> Undefined, threw |-> "",
                  sends |-> <<>>, ran |-> FALSE, notifyDays |-> <<>>, days |-> 0]
    IN  IF Len(notificationList) = 0 THEN quiet
        ELSE IF domain = NoBean THEN [quiet EXCEPT !.threw = "TypeError"]
        ELSE IF NoValidExpiry(domain) THEN quiet
        ELSE LET days == daysRemaining(domain, now)
                 lastSent == domain.lastExpiryNotificationSent
                 stored == IF NeedsDefault(setting) THEN ArraySetting(DefaultNotifyDays)
                           ELSE setting
                 notifyDays == SortAsc(stored.a)
                 r == NotifyLoop(notifyDays, 1, 1, days, lastSent, notificationList,
                                 outcome, <<>>)
                 ran == [quiet EXCEPT !.setting = stored,
                                      !.sends = r.sends, !.ran = TRUE,
                                      !.notifyDays = notifyDays, !.days = days.n]
             IN  IF r.sent
                 THEN [ran EXCEPT
                          !.rows = Store(rows, [domain EXCEPT
                                     !.lastExpiryNotificationSent = Num(r.targetDays)]),
                          !.ret = Num(r.targetDays)]
                 ELSE ran

\* ------------------------------------------------------------ checkSupport
\* the monitor types with a domain-bearing target field, and that field
TYPES_WITH_DOMAIN_EXPIRY_SUPPORT_VIA_FIELD == [http |-> "url", ping |-> "hostname"]

NoTarget == [k |-> "undefined", s |-> ""]
Target(s) == [k |-> "string", s |-> s]

\* the null of a tldts result
NullName == "(null)"

\* tldts parse(target), on the targets used here (a null that is never read
\* is written ""); a target whose host is no valid hostname, such as the
\* scheme alone, parses to a result with every name null
parseTld(target) ==
    CASE target = "https://www.example.com/path" ->
           [isIp |-> FALSE, hostname |-> "www.example.com",
            publicSuffix |-> "com", domain |-> "example.com"]
      [] target = "192.168.1.1" ->
           [isIp |-> TRUE, hostname |-> "192.168.1.1", publicSuffix |-> "", domain |-> ""]
      [] target = "https://" ->
           [isIp |-> FALSE, hostname |-> NullName, publicSuffix |-> NullName,
            domain |-> NullName]
      [] OTHER ->
           [isIp |-> FALSE, hostname |-> target, publicSuffix |-> target, domain |-> ""]

\* tld.publicSuffix.length < 2, on the suffixes used here
SuffixTooShort(publicSuffix) == publicSuffix \in {"", "x"}

\* publicSuffix.split(".").pop(), on the suffixes used here
RootTld(publicSuffix) == IF publicSuffix = "co.uk" THEN "uk" ELSE publicSuffix

\* monitor[targetField]
Field(monitor, targetField) == IF targetField = "url" THEN monitor.url ELSE monitor.hostname

\* checkSupport(monitor): the error thrown ("" when none; "TypeError" when
\* .length is read of a null publicSuffix), else domain and tld
checkSupport(monitor) ==
    LET fail(e) == [threw |-> e, domain |-> "", tld |-> ""]
    IN  IF monitor.type \notin DOMAIN TYPES_WITH_DOMAIN_EXPIRY_SUPPORT_VIA_FIELD
        THEN fail("domain_expiry_unsupported_monitor_type")
        ELSE LET target == Field(monitor, TYPES_WITH_DOMAIN_EXPIRY_SUPPORT_VIA_FIELD[monitor.type])
             IN  IF target.k # "string" \/ target.s = ""
                 THEN fail("domain_expiry_unsupported_missing_target")
                 ELSE LET tld == parseTld(target.s)
                      IN  IF tld.isIp THEN fail("domain_expiry_unsupported_is_ip")
                          ELSE IF tld.publicSuffix = NullName THEN fail("TypeError")
                          ELSE IF SuffixTooShort(tld.publicSuffix)
                          THEN fail("domain_expiry_public_suffix_too_short")
                          ELSE [threw |-> "", domain |-> tld.domain,
                                tld |-> RootTld(tld.publicSuffix)]

\* ------------------------------------------- DomainExpiryMonitorType.check
\* !expiryDate || Number.isNaN(expiryDate.getTime()): "none" when the test is
\* true, "TypeError" when expiryDate is a text, which has no getTime, else "date"
ExpiryDateTest(expiryDate) ==
    IF ~Truthy(expiryDate) THEN "none"
    ELSE IF expiryDate.k \in {"Date", "InvalidDateObject"}
    THEN (IF IsNaNTime(expiryDate) THEN "none" ELSE "date")
    ELSE "TypeError"

\* check(monitor, heartbeat): the table afterwards, the error thrown ("" when
\* none), heartbeat.status, and what checkExpiry did and returned
check(rows, now, monitor, answer) ==
    LET supportInfo == checkSupport(monitor)
        r == checkExpiry(rows, now, supportInfo.domain, answer)
        test == ExpiryDateTest(r.ret)
        domain == findByDomainNameOrCreate(r.rows, supportInfo.domain)
        days == daysRemaining(domain, now)
        out == [rows |-> r.rows, threw |-> "", status |-> "PENDING", called |-> TRUE,
                domain |-> supportInfo.domain, ret |-> r.ret, queried |-> r.queried,
                days |-> 0]
    IN  IF supportInfo.threw # ""
        THEN [out EXCEPT !.rows = rows, !.threw = supportInfo.threw, !.called = FALSE,
                         !.ret = Undefined, !.queried = FALSE]
        ELSE IF test = "none" THEN [out EXCEPT !.threw = "NoRegistryExpiryDate"]
        ELSE IF test = "TypeError" THEN [out EXCEPT !.threw = "TypeError"]
        ELSE IF ~days.isNaN /\ days.n < 0
        THEN [out EXCEPT !.threw = "DomainExpired", !.days = days.n]
        ELSE [out EXCEPT !.status = "UP", !.days = days.n]

\* ------------------------------------------------------------ the inputs
DomainNames == {"example.com"}

\* the names the operations are called with; "" stands for an absent name
CallNames == DomainNames \cup {""}

Entry(a, v) == [attribute |-> a, value |-> v]
Answer(data) == [err |-> FALSE, data |-> data]
NoAnswer == [err |-> TRUE, data |-> <<>>]

\* what the WHOIS server may answer: an error, no expiry field, an expiry field
\* that is no date, an expiry date a day and a half, two days and a half and
\* twenty-two days after instant 0, two expiry fields, and an expiry field
\* followed by one that is no date
WhoisAnswers ==
    {NoAnswer,
     Answer(<<Entry("Domain Name", OtherText)>>),
     Answer(<<Entry("  paid-till", OtherText)>>),
     Answer(<<Entry("Registry Expiry Date", DateText(3))>>),
     Answer(<<Entry("Domain Name", OtherText), Entry("Registry Expiry Date", DateText(5))>>),
     Answer(<<Entry("Registry Expiry Date", DateText(5)),
              Entry("Registrar Registration Expiration Date", DateText(44))>>),
     Answer(<<Entry("Registry Expiry Date", DateText(5)), Entry("paid-till", OtherText)>>)}

NotificationLists == {<<>>, <<"p1", "p2">>}

MaxFailFirst == 1
Outcomes(notificationList) ==
    [failFirst : 0..MaxFailFirst, okSet : SUBSET (1..Len(notificationList))]

\* what the user may save as the setting: something that is no list, a list
ConfiguredSettings == {[k |-> "other", a |-> <<>>], ArraySetting(<<7, 0>>)}

Monitors ==
    {[type |-> "http", url |-> Target("https://www.example.com/path"), hostname |-> NoTarget],
     [type |-> "ping", url |-> NoTarget, hostname |-> Target("192.168.1.1")],
     [type |-> "ping", url |-> NoTarget, hostname |-> Target("x")],
     [type |-> "http", url |-> Target(""), hostname |-> NoTarget],
     [type |-> "http", url |-> Target("https://"), hostname |-> NoTarget],
     [type |-> "group", url |-> NoTarget, hostname |-> NoTarget]}

\* ------------------------------------------------------------- the state
VARIABLES
    now,        \* the current instant, in ticks
    rows,       \* the domain_expiry table
    setting,    \* the domainExpiryNotifyDays setting
    last,       \* the operation that has just run: its inputs, what it did and returned
    sentSet,    \* per domain, the thresholds sent since its expiry last changed
    today,      \* per domain, the checkExpiry calls of this UTC day: "none",
                \* "called" (no WHOIS query yet), "queried" (one), "queriedAgain"
    calls,      \* the calls in flight at once: where each stands and its locals
    wire        \* what calls in flight have put on the network: the calls
                \* started, the WHOIS queries, the notifications delivered

vars == <<now, rows, setting, last, sentSet, today, calls, wire>>

Idle ==
    [op |-> "none", domain |-> "", pre |-> NoBean, answer |-> NoAnswer,
     queried |-> FALSE, ret |-> Undefined, threw |-> "", status |-> "PENDING",
     sends |-> <<>>, ran |-> FALSE, notifyDays |-> <<>>, days |-> 0,
     outcome |-> [failFirst |-> 0, okSet |-> {}], calledBefore |-> FALSE,
     sentBefore |-> {}, notificationList |-> <<>>,
     rowsBefore |-> <<>>, settingBefore |-> NoSetting,
     monitor |-> [type |-> "", url |-> NoTarget, hostname |-> NoTarget]]

\* the two calls that may be in flight at once
Calls == {"first", "second"}

\* a call not in flight
NoCall ==
    [pc |-> "idle", op |-> "none", bean |-> NoBean, expiryDate |-> Undefined,
     days |-> 0, notifyDays |-> <<>>, i |-> 0, p |-> 0, sent |-> FALSE,
     ret |-> Undefined, threw |-> ""]

Init ==
    /\ calls = [c \in Calls |-> NoCall]
    /\ wire = [started |-> 0, queries |-> 0, delivered |-> <<>>]
    /\ now = 0
    /\ rows = <<>>
    /\ setting = NoSetting
    /\ last = Idle
    /\ sentSet = [d \in DomainNames |-> {}]
    /\ today = [d \in DomainNames |-> "none"]

\* today after a checkExpiry call for domainName
Counted(domainName, queried) ==
    IF domainName \notin DomainNames THEN today
    ELSE [today EXCEPT ![domainName] =
            IF queried THEN (IF @ \in {"none", "called"} THEN "queried" ELSE "queriedAgain")
            ELSE (IF @ = "none" THEN "called" ELSE @)]

CalledBefore(domainName) == domainName \in DomainNames /\ today[domainName] # "none"

\* sentSet after a checkExpiry call: a changed expiry starts anew
Relogged(domainName, before, after) ==
    IF domainName \in DomainNames
       /\ findByName(after, domainName).expiry # findByName(before, domainName).expiry
    THEN [sentSet EXCEPT ![domainName] = {}]
    ELSE sentSet

\* what the WHOIS server stands ready to answer while no lookup is made: an
\* error, or a renewed expiry
StandingAnswers ==
    {NoAnswer,
     Answer(<<Entry("Registry Expiry Date", DateText(5)),
              Entry("Registrar Registration Expiration Date", DateText(44))>>)}

\* the outcomes that matter to a sendNotifications call: one when no send
\* can follow
OutcomesFor(domainName, notificationList) ==
    LET domain == findByName(rows, domainName)
    IN  IF Len(notificationList) = 0 \/ domain = NoBean \/ NoValidExpiry(domain)
        THEN {Idle.outcome}
        ELSE Outcomes(notificationList)

\* the WHOIS answers that matter to a call for domainName
AnswersFor(domainName) ==
    IF domainName \notin DomainNames THEN {NoAnswer}
    ELSE IF Throttled(findByName(rows, domainName), now) THEN StandingAnswers
    ELSE WhoisAnswers

\* the clock advances
Tick ==
    /\ last = Idle
    /\ now < MaxNow
    /\ now' = now + 1
    /\ today' = IF UtcDay(now + 1) = UtcDay(now) THEN today
                ELSE [d \in DomainNames |-> "none"]
    /\ UNCHANGED <<rows, setting, last, sentSet, calls, wire>>

\* the system clock is set back a day: dayjs.utc() reads the wall clock, which
\* an operator or a time service may correct
ClockSetBack ==
    /\ last = Idle
    /\ now >= TicksPerDay
    /\ now' = now - TicksPerDay
    /\ today' = [d \in DomainNames |-> "none"]
    /\ UNCHANGED <<rows, setting, last, sentSet, calls, wire>>

\* the user saves the notification settings
SetSetting(v) ==
    /\ last = Idle
    /\ setting' = v
    /\ UNCHANGED <<now, rows, last, sentSet, today, calls, wire>>

CheckExpiry(domainName, answer) ==
    LET r == checkExpiry(rows, now, domainName, answer)
    IN  /\ last = Idle
        /\ answer \in AnswersFor(domainName)
        /\ rows' = r.rows
        /\ last' = [Idle EXCEPT !.op = "checkExpiry", !.domain = domainName,
                                !.pre = findByName(rows, domainName), !.answer = answer,
                                !.queried = r.queried, !.ret = r.ret, !.ran = TRUE,
                                !.calledBefore = CalledBefore(domainName)]
        /\ today' = Counted(domainName, r.queried)
        /\ sentSet' = Relogged(domainName, rows, r.rows)
        /\ UNCHANGED <<now, setting, calls, wire>>

SendNotifications(domainName, notificationList, outcome) ==
    LET r == sendNotifications(rows, setting, now, domainName, notificationList, outcome)
    IN  /\ last = Idle
        /\ outcome \in OutcomesFor(domainName, notificationList)
        /\ rows' = r.rows
        /\ setting' = r.setting
        /\ last' = [Idle EXCEPT !.op = "sendNotifications", !.domain = domainName,
                                !.notificationList = notificationList,
                                !.rowsBefore = rows, !.settingBefore = setting,
                                !.pre = findByName(rows, domainName), !.ret = r.ret,
                                !.threw = r.threw, !.sends = r.sends, !.ran = r.ran,
                                !.notifyDays = r.notifyDays, !.days = r.days,
                                !.outcome = IF r.sends = <<>> THEN Idle.outcome
                                            ELSE outcome,
                                !.sentBefore = IF domainName \in DomainNames
                                               THEN sentSet[domainName] ELSE {}]
        /\ sentSet' = IF r.ret = Undefined THEN sentSet
                      ELSE [sentSet EXCEPT ![domainName] = @ \cup {r.ret.t}]
        /\ UNCHANGED <<now, today, calls, wire>>

Check(monitor, answer) ==
    LET r == check(rows, now, monitor, answer)
    IN  /\ last = Idle
        /\ answer \in AnswersFor(r.domain)
        /\ rows' = r.rows
        /\ last' = [Idle EXCEPT !.op = "check", !.domain = r.domain,
                                !.monitor = monitor,
                                !.pre = findByName(rows, r.domain), !.answer = answer,
                                !.queried = r.queried, !.ret = r.ret, !.threw = r.threw,
                                !.status = r.status, !.days = r.days, !.ran = r.called,
                                !.calledBefore = r.called /\ CalledBefore(r.domain)]
        /\ today' = IF r.called THEN Counted(r.domain, r.queried) ELSE today
        /\ sentSet' = Relogged(r.domain, rows, r.rows)
        /\ UNCHANGED <<now, setting, calls, wire>>

\* the caller has taken the result of the operation
Return ==
    /\ last # Idle
    /\ last' = Idle
    /\ UNCHANGED <<now, rows, setting, sentSet, today, calls, wire>>

Next ==
    \/ Tick
    \/ ClockSetBack
    \/ \E v \in ConfiguredSettings : SetSetting(v)
    \/ \E d \in CallNames, a \in WhoisAnswers : CheckExpiry(d, a)
    \/ \E d \in CallNames, l \in NotificationLists :
          \E o \in Outcomes(l) : SendNotifications(d, l, o)
    \/ \E m \in Monitors, a \in WhoisAnswers : Check(m, a)
    \/ Return

Spec == Init /\ [][Next]_vars

\* ------------------------------------------------ calls in flight at once
\* checkExpiry and sendNotifications are async functions: a call runs from one
\* await to the next without interruption, and at an await another call may
\* run.  Each action below is one such stretch of one call.

MaxStarts == 3

\* the domain and the providers the calls in flight are made with
ConcurrentDomain == "example.com"
ConcurrentList == <<"p1">>

\* what the WHOIS server answers a call in flight: an error, or an expiry a
\* day and a half ahead
ConcurrentAnswers == {NoAnswer, Answer(<<Entry("Registry Expiry Date", DateText(3))>>)}

\* domain TEXT UNIQUE: an insert of a second row for a domain is refused
UniqueViolation(table, bean) ==
    bean.id = 0 /\ \E i \in 1..Len(table) : table[i].domain = bean.domain

\* the position in notifyDays, from i on, of the first threshold that is due
\* and not suppressed (the two tests that `continue`); 0 when there is none
RECURSIVE NextDue(_, _, _, _)
NextDue(notifyDays, i, days, lastSent) ==
    IF i > Len(notifyDays) THEN 0
    ELSE IF NotYetDue(days, notifyDays[i]) \/ SentAlready(lastSent, notifyDays[i])
    THEN NextDue(notifyDays, i + 1, days, lastSent)
    ELSE i

\* one more delivery of the notification for targetDays to provider
Delivered(delivered, targetDays, provider) ==
    LET key == <<targetDays, provider>>
    IN  [k \in (DOMAIN delivered) \cup {key} |->
            IF k = key THEN (IF key \in DOMAIN delivered THEN delivered[key] + 1 ELSE 1)
            ELSE delivered[k]]

\* a call of op starts: it awaits findByDomainNameOrCreate
StartCall(c, op) ==
    /\ calls[c].pc = "idle"
    /\ wire.started < MaxStarts
    /\ calls' = [calls EXCEPT ![c] = [NoCall EXCEPT !.pc = "find", !.op = op]]
    /\ wire' = [wire EXCEPT !.started = @ + 1]
    /\ UNCHANGED <<now, rows, setting, last, sentSet, today>>

\* checkExpiry from the row read to the throttle's return or the WHOIS query
CheckFind(c) ==
    LET bean == findByDomainNameOrCreate(rows, ConcurrentDomain)
    IN  /\ calls[c].pc = "find" /\ calls[c].op = "checkExpiry"
        /\ IF Throttled(bean, now)
           THEN /\ calls' = [calls EXCEPT ![c].pc = "idle", ![c].bean = bean,
                                          ![c].ret = bean.expiry]
                /\ wire' = wire
           ELSE /\ calls' = [calls EXCEPT ![c].pc = "lookup", ![c].bean = bean]
                /\ wire' = [wire EXCEPT !.queries = @ + 1]
        /\ UNCHANGED <<now, rows, setting, last, sentSet, today>>

\* checkExpiry from the WHOIS answer to the call of R.store
CheckAnswer(c, answer) ==
    LET result == getWhoisDomainExpiryDate(answer)
    IN  /\ calls[c].pc = "lookup"
        /\ calls' = [calls EXCEPT ![c].pc = "store",
                                  ![c].bean = Refreshed(calls[c].bean, result, now),
                                  ![c].expiryDate = result.expiryDate]
        /\ UNCHANGED <<now, rows, setting, last, sentSet, today, wire>>

\* checkExpiry from the write of R.store to its return
CheckStore(c) ==
    /\ calls[c].pc = "store" /\ calls[c].op = "checkExpiry"
    /\ IF UniqueViolation(rows, calls[c].bean)
       THEN /\ rows' = rows
            /\ calls' = [calls EXCEPT ![c].pc = "idle", ![c].threw = "UniqueViolation"]
       ELSE /\ rows' = Store(rows, calls[c].bean)
            /\ calls' = [calls EXCEPT ![c].pc = "idle",
                                      ![c].ret = Returned(calls[c].expiryDate)]
    /\ UNCHANGED <<now, setting, last, sentSet, today, wire>>

\* sendNotifications from the row read to the await of the setting
SendFind(c) ==
    LET domain == findByDomainNameOrCreate(rows, ConcurrentDomain)
    IN  /\ calls[c].pc = "find" /\ calls[c].op = "sendNotifications"
        /\ calls' = IF NoValidExpiry(domain)
                    THEN [calls EXCEPT ![c].pc = "idle", ![c].bean = domain]
                    ELSE [calls EXCEPT ![c].pc = "setting", ![c].bean = domain,
                                       ![c].days = daysRemaining(domain, now).n]
        /\ UNCHANGED <<now, rows, setting, last, sentSet, today, wire>>

\* sendNotifications from the setting read to the first send, or to its
\* return when no threshold is due
SendSetting(c) ==
    LET stored == IF NeedsDefault(setting) THEN ArraySetting(DefaultNotifyDays) ELSE setting
        notifyDays == SortAsc(stored.a)
        days == [isNaN |-> FALSE, n |-> calls[c].days]
        i == NextDue(notifyDays, 1, days, calls[c].bean.lastExpiryNotificationSent)
    IN  /\ calls[c].pc = "setting"
        /\ setting' = stored
        /\ calls' = IF i = 0 THEN [calls EXCEPT ![c].pc = "idle"]
                    ELSE [calls EXCEPT ![c].pc = "send", ![c].notifyDays = notifyDays,
                                       ![c].i = i, ![c].p = 1, ![c].sent = FALSE]
        /\ UNCHANGED <<now, rows, last, sentSet, today, wire>>

\* sendNotifications from the end of one Notification.send, ok or thrown, to
\* the next send, the call of R.store, or its return
SendOne(c, ok) ==
    LET call == calls[c]
        targetDays == call.notifyDays[call.i]
        sent == call.sent \/ ok
        days == [isNaN |-> FALSE, n |-> call.days]
        next == NextDue(call.notifyDays, call.i + 1, days,
                        call.bean.lastExpiryNotificationSent)
    IN  /\ call.pc = "send"
        /\ wire' = IF ok THEN [wire EXCEPT !.delivered =
                                  Delivered(@, targetDays, ConcurrentList[call.p])]
                   ELSE wire
        /\ calls' =
             IF call.p < Len(ConcurrentList)
             THEN [calls EXCEPT ![c].p = @ + 1, ![c].sent = sent]
             ELSE IF sent
             THEN [calls EXCEPT ![c].pc = "store", ![c].sent = TRUE,
                                ![c].bean.lastExpiryNotificationSent = Num(targetDays)]
             ELSE IF next = 0 THEN [calls EXCEPT ![c].pc = "idle"]
             ELSE [calls EXCEPT ![c].i = next, ![c].p = 1, ![c].sent = FALSE]
        /\ UNCHANGED <<now, rows, setting, last, sentSet, today>>

\* sendNotifications from the write of R.store to its return
SendStore(c) ==
    /\ calls[c].pc = "store" /\ calls[c].op = "sendNotifications"
    /\ rows' = Store(rows, calls[c].bean)
    /\ calls' = [calls EXCEPT ![c].pc = "idle",
                              ![c].ret = calls[c].bean.lastExpiryNotificationSent]
    /\ UNCHANGED <<now, setting, last, sentSet, today, wire>>

NextConcurrent ==
    \/ \E c \in Calls, op \in {"checkExpiry", "sendNotifications"} : StartCall(c, op)
    \/ \E c \in Calls : CheckFind(c)
    \/ \E c \in Calls, a \in ConcurrentAnswers : CheckAnswer(c, a)
    \/ \E c \in Calls : CheckStore(c)
    \/ \E c \in Calls : SendFind(c)
    \/ \E c \in Calls : SendSetting(c)
    \/ \E c \in Calls, ok \in BOOLEAN : SendOne(c, ok)
    \/ \E c \in Calls : SendStore(c)

SpecConcurrent == Init /\ [][NextConcurrent]_vars

\* ------------------------------------------------------------- the claims
\* the row of the domain the last operation was about
LastRow == findByName(rows, last.domain)

IsCheckExpiryCall == last.op \in {"checkExpiry", "check"} /\ last.ran

Min(S) == CHOOSE x \in S : \A y \in S : x <= y

\* C1: two checkExpiry calls for a domain within one UTC calendar day issue at
\* most one WHOIS query between them, and a call that follows another call of
\* the same day returns the expiry cached in the record without a query.
C1_ThrottleOncePerDay ==
    /\ \A d \in DomainNames : today[d] # "queriedAgain"
    /\ (IsCheckExpiryCall /\ last.calledBefore)
          => (~last.queried /\ last.pre # NoBean /\ last.ret = last.pre.expiry)

\* a call that follows, the same day, the call that queried
C1_Witness ==
    /\ last.op = "checkExpiry" /\ last.calledBefore /\ ~last.queried
    /\ today[last.domain] = "queried"
    /\ UtcDay(last.pre.lastCheck.t) = UtcDay(now)

\* C2: a checkExpiry call for a record whose lastCheck is a full day or more
\* before now queries the WHOIS server and stamps lastCheck with now.
C2_RefreshAfterWindow ==
    (IsCheckExpiryCall /\ last.pre # NoBean /\ last.pre.lastCheck.k = "string"
       /\ now - last.pre.lastCheck.t >= TicksPerDay)
      => (last.queried /\ LastRow.lastCheck = DateText(now))

\* C3: for a record with expiry E and a notification threshold on record, a
\* later checkExpiry, the throttle window over, for which the WHOIS answer
\* carries an expiry after E leaves the threshold null and that expiry stored.
C3_RenewalResetsSuppression ==
    LET offered == getWhoisDomainExpiryDate(last.answer).expiryDate
    IN  (IsCheckExpiryCall /\ last.pre # NoBean
           /\ last.pre.expiry.k = "string"
           /\ last.pre.lastExpiryNotificationSent.k = "number"
           /\ last.pre.lastCheck.k = "string"
           /\ now - last.pre.lastCheck.t >= TicksPerDay
           /\ offered.k = "Date" /\ offered.t > last.pre.expiry.t)
          => (/\ LastRow.lastExpiryNotificationSent = Null
              /\ LastRow.expiry = DateText(offered.t))

\* C4: while the expiry of a domain is unchanged, no threshold is sent (stored
\* and returned by sendNotifications) that was sent before.
C4_NoDuplicateNotification ==
    (last.op = "sendNotifications" /\ last.ret # Undefined)
      => last.ret.t \notin last.sentBefore

\* C5: while the expiry of a domain is unchanged, a threshold on record only
\* ever gives way to a smaller one, so the threshold on record is the smallest
\* threshold sent.
C5_NeverRegresses ==
    /\ (last.op = "sendNotifications" /\ last.pre # NoBean
          /\ last.pre.lastExpiryNotificationSent.k = "number")
         => (\/ LastRow.lastExpiryNotificationSent = last.pre.lastExpiryNotificationSent
             \/ LastRow.lastExpiryNotificationSent.t < last.pre.lastExpiryNotificationSent.t)
    /\ \A d \in DomainNames :
          sentSet[d] # {}
            => findByName(rows, d).lastExpiryNotificationSent = Num(Min(sentSet[d]))

\* the configured thresholds the domain is within, days before its expiry
Due == {setting.a[i] : i \in {j \in DOMAIN setting.a : last.days <= setting.a[j]}}

\* the last operation ran the threshold loop with no threshold on record
\* and a provider for which every send succeeds
FirstNotification ==
    /\ last.op = "sendNotifications" /\ last.ran
    /\ last.pre.lastExpiryNotificationSent = Null
    /\ last.outcome.failFirst = 0 /\ last.outcome.okSet # {}

\* C6: with a valid expiry, no threshold on record, a provider that succeeds
\* and the domain within one or more configured thresholds (days = threshold
\* counts), sendNotifications sends, stores and returns the smallest of them
\* and sends for no other, in whatever order the thresholds are configured.
C6_AscendingTieBreak ==
    (FirstNotification /\ Due # {})
      => (/\ last.ret = Num(Min(Due))
          /\ LastRow.lastExpiryNotificationSent = Num(Min(Due))
          /\ last.sends # <<>>
          /\ \A i \in DOMAIN last.sends : last.sends[i].targetDays = Min(Due))

\* the thresholds configured larger first, both due: the smaller one is sent
C6_Witness ==
    /\ FirstNotification /\ setting.a = <<7, 0>> /\ Due = {0, 7}
    /\ last.ret = Num(0)

\* C7: in one sendNotifications call, after a send has succeeded for a
\* threshold no send is made for another threshold, and no two sends that
\* succeed are for different thresholds.
C7_OneThresholdPerCall ==
    last.op = "sendNotifications"
      => \A i, j \in DOMAIN last.sends :
            (last.sends[i].ok /\ (i < j \/ last.sends[j].ok))
              => last.sends[j].targetDays = last.sends[i].targetDays

\* three thresholds due, every send of the first fails, the second is sent
\* and the third is left alone
C7_Witness ==
    /\ last.op = "sendNotifications" /\ last.notifyDays = <<7, 14, 21>>
    /\ last.days <= 7 /\ last.ret = Num(14)
    /\ {last.sends[i].targetDays : i \in DOMAIN last.sends} = {7, 14}

\* C8: a checkExpiry call that queries the WHOIS server for a record holding
\* a valid expiry and extracts no expiry date leaves the stored expiry as it
\* was, a valid date.
C8_ExpirySurvivesFailedCheck ==
    (IsCheckExpiryCall /\ last.queried /\ last.pre # NoBean
       /\ last.pre.expiry.k = "string"
       /\ getWhoisDomainExpiryDate(last.answer).expiryDate = Null)
      => LastRow.expiry = last.pre.expiry

\* the answer is an error or has no entry with a known expiry key and a date
NoUsableExpiry(answer) ==
    \/ answer.err
    \/ ~\E i \in DOMAIN answer.data :
           /\ Trim(answer.data[i].attribute) \in WHOIS_EXPIRY_KEYS
           /\ answer.data[i].value.k = "string"

\* C9: when the WHOIS lookup fails or its answer has no recognised expiry
\* field that is a date, checkExpiry throws nothing and returns undefined, and
\* the monitor check fails with the error that no registry expiry date was
\* found for the domain.
C9_SoftFailure ==
    (IsCheckExpiryCall /\ last.queried /\ NoUsableExpiry(last.answer))
      => (/\ last.ret = Undefined
          /\ last.op = "checkExpiry" => last.threw = ""
          /\ last.op = "check" =>
                (last.threw = "NoRegistryExpiryDate" /\ last.status # "UP"
                   /\ last.domain \in DomainNames))

\* a monitor check that queried and got an expiry field that is no date
C9_Witness ==
    /\ last.op = "check" /\ last.queried /\ ~last.answer.err
    /\ NoUsableExpiry(last.answer) /\ last.threw = "NoRegistryExpiryDate"
    /\ \E i \in DOMAIN last.answer.data :
          Trim(last.answer.data[i].attribute) \in WHOIS_EXPIRY_KEYS

\* C10: a monitor check of a domain whose expiry is before the current instant
\* throws the error that the domain expired and never sets the status UP.
C10_ExpiredFails ==
    (last.op = "check" /\ last.ran /\ LastRow # NoBean
       /\ LastRow.expiry.k = "string" /\ LastRow.expiry.t < now)
      => (last.threw = "DomainExpired" /\ last.status # "UP")

\* C11: a monitor check of a domain whose record holds a valid expiry that is
\* not yet past sets the heartbeat status UP, whether the throttle answers it
\* from the record or a query does.
C11_StableUp ==
    (last.op = "check" /\ last.ran /\ last.pre # NoBean
       /\ last.pre.expiry.k = "string" /\ last.pre.expiry.t >= now)
      => (last.status = "UP" /\ last.threw = "")

\* the threshold loop ran in the last sendNotifications call
RanLoop == last.op = "sendNotifications" /\ last.ran

\* C12: when sendNotifications reaches the thresholds (a provider, a valid
\* expiry) with the domainExpiryNotifyDays setting absent or no list, it
\* stores [7, 14, 21] as the setting and goes through exactly 7, 14 and 21.
C12_DefaultThresholds ==
    (RanLoop /\ last.settingBefore.k # "array")
      => (setting = ArraySetting(<<7, 14, 21>>) /\ last.notifyDays = <<7, 14, 21>>)

\* the setting was something that is no list, and a threshold was attempted
C12_Witness ==
    /\ RanLoop /\ last.settingBefore.k = "other"
    /\ setting = ArraySetting(<<7, 14, 21>>) /\ last.sends # <<>>

\* the sends of the last call that were made for threshold targetDays
SendsFor(targetDays) == {i \in DOMAIN last.sends : last.sends[i].targetDays = targetDays}

\* C13: for every threshold a send is attempted for, one send is made to every
\* provider of the list, in order, whichever of them fail, and the threshold
\* is stored and returned if and only if one of these sends succeeded.
C13_PartialProviderSuccess ==
    last.op = "sendNotifications" =>
      LET list == last.notificationList
          n == Len(list)
      IN  /\ \A i \in DOMAIN last.sends :
                /\ n > 0
                /\ last.sends[i].provider = list[((i - 1) % n) + 1]
                /\ last.sends[i].targetDays = last.sends[i - ((i - 1) % n)].targetDays
                /\ i - ((i - 1) % n) + n - 1 \in DOMAIN last.sends
          /\ \A i \in DOMAIN last.sends :
                LET targetDays == last.sends[i].targetDays
                IN  (\E j \in SendsFor(targetDays) : last.sends[j].ok)
                      <=> (/\ last.ret = Num(targetDays)
                           /\ LastRow.lastExpiryNotificationSent = Num(targetDays))

\* the first provider failed, the second succeeded, and the threshold is stored
C13_Witness ==
    /\ last.op = "sendNotifications" /\ Len(last.sends) = 2
    /\ ~last.sends[1].ok /\ last.sends[2].ok
    /\ last.ret = Num(last.sends[1].targetDays)
    /\ LastRow.lastExpiryNotificationSent = last.ret

\* the last sendNotifications call returned undefined
SentNothing == last.op = "sendNotifications" /\ last.threw = "" /\ last.ret = Undefined

\* C14: a sendNotifications call in which no threshold is sent returns
\* undefined and leaves everything persisted, the table and the setting, as it
\* was.
C14_NothingSentNothingChanged ==
    SentNothing => (rows = last.rowsBefore /\ setting = last.settingBefore)

\* C14 as amended: a sendNotifications call in which no threshold is sent
\* returns undefined and leaves the table as it was; the setting it leaves as
\* it was too, unless it was absent or no list and the thresholds were
\* reached, and then [7, 14, 21] is stored as the setting.
C14_NothingSentRecordKept ==
    SentNothing =>
      /\ rows = last.rowsBefore
      /\ \/ setting = last.settingBefore
         \/ /\ last.ran /\ last.settingBefore.k # "array"
            /\ setting = ArraySetting(<<7, 14, 21>>)

\* every provider failed at every threshold due, while the setting was absent
C14_Witness ==
    /\ SentNothing /\ last.ran /\ last.sends # <<>>
    /\ last.settingBefore = NoSetting /\ setting # last.settingBefore
    /\ rows = last.rowsBefore /\ rows # <<>>

\* what checkSupport threw in the last monitor check: check goes on to
\* checkExpiry exactly when checkSupport returned
SupportThrew == IF last.ran THEN "" ELSE last.threw

\* C18: checkSupport returns or throws one of its four errors and no other:
\* unsupported type first, then a target that is no text or empty, then an IP
\* address, then a public suffix shorter than 2 characters.
C18_CheckSupportTotal ==
    last.op = "check" =>
      LET monitor == last.monitor
          supported == monitor.type \in DOMAIN TYPES_WITH_DOMAIN_EXPIRY_SUPPORT_VIA_FIELD
          target == Field(monitor, TYPES_WITH_DOMAIN_EXPIRY_SUPPORT_VIA_FIELD[monitor.type])
          missing == target.k # "string" \/ target.s = ""
      IN  /\ SupportThrew \in {"", "domain_expiry_unsupported_monitor_type",
                               "domain_expiry_unsupported_missing_target",
                               "domain_expiry_unsupported_is_ip",
                               "domain_expiry_public_suffix_too_short"}
          /\ ~supported => SupportThrew = "domain_expiry_unsupported_monitor_type"
          /\ (supported /\ missing) => SupportThrew = "domain_expiry_unsupported_missing_target"
          /\ (supported /\ ~missing /\ parseTld(target.s).isIp)
                => SupportThrew = "domain_expiry_unsupported_is_ip"
          /\ (supported /\ ~missing /\ ~parseTld(target.s).isIp
                /\ parseTld(target.s).publicSuffix \in {"", "x"})
                => SupportThrew = "domain_expiry_public_suffix_too_short"

\* the positions of the entries of data with a known expiry key
ExpiryEntries(data) == {i \in DOMAIN data : Trim(data[i].attribute) \in WHOIS_EXPIRY_KEYS}

\* the date of the first entry with a known expiry key, null when there is no
\* such entry or its value is no date
FirstMatch(data) ==
    IF ExpiryEntries(data) = {} THEN Null
    ELSE LET first == CHOOSE i \in ExpiryEntries(data) : \A j \in ExpiryEntries(data) : i <= j
             d == NewDate(data[first].value)
         IN  IF IsNaNTime(d) THEN Null ELSE d

\* every attribute of data with the value of its last occurrence
LastOccurrences(data) ==
    [a \in {data[i].attribute : i \in DOMAIN data} |->
        LET at == {i \in DOMAIN data : data[i].attribute = a}
        IN  data[CHOOSE i \in at : \A j \in at : j <= i].value]

\* C19: the expiry extracted from a WHOIS answer is the date of the first
\* entry with a known expiry key, null when that value is no date or there is
\* no such entry, and the WHOIS info stored maps every attribute to the value
\* of its last occurrence.
C19_FirstMatch ==
    (IsCheckExpiryCall /\ last.queried /\ ~last.answer.err)
      => (/\ last.ret = Returned(FirstMatch(last.answer.data))
          /\ LastRow.whois_info.m = LastOccurrences(last.answer.data))

\* what the WHOIS answer of the last call carries as the expiry
Offered == getWhoisDomainExpiryDate(last.answer).expiryDate

\* the last checkExpiry call saw no renewal: the throttle answered it, or the
\* WHOIS answer had no date, or a date not after the expiry on record
NoRenewalSeen ==
    /\ IsCheckExpiryCall /\ last.pre # NoBean
    /\ \/ ~last.queried
       \/ Offered = Null
       \/ /\ Offered.k = "Date" /\ last.pre.expiry.k = "string"
          /\ Offered.t <= last.pre.expiry.t

\* C20: a checkExpiry call that sees no renewal leaves the notification
\* threshold on record as it was, and sendNotifications leaves expiry and
\* lastCheck as they were.
C20_ResetOnlyByRenewal ==
    /\ NoRenewalSeen
         => LastRow.lastExpiryNotificationSent = last.pre.lastExpiryNotificationSent
    /\ last.op = "sendNotifications"
         => (LastRow.expiry = last.pre.expiry /\ LastRow.lastCheck = last.pre.lastCheck)

\* a query for a record with a threshold stored that is answered the expiry
\* on record
C20_Witness ==
    /\ NoRenewalSeen /\ last.queried
    /\ last.pre.lastExpiryNotificationSent.k = "number"
    /\ Offered.k = "Date" /\ Offered.t = last.pre.expiry.t
    /\ LastRow.lastExpiryNotificationSent = last.pre.lastExpiryNotificationSent

\* C15: the calls in flight at once for one domain, all within one throttle
\* window, put at most one WHOIS query on the network.
C15_OneQueryPerWindow == wire.queries <= 1

\* C16: with calls in flight at once for one domain, one expiry and one list
\* of thresholds, the notification of a threshold is delivered to a provider
\* at most once.
C16_OneDeliveryPerThreshold == \A k \in DOMAIN wire.delivered : wire.delivered[k] <= 1

\* every row keeps its domain
DomainsKept ==
    /\ Len(rows') >= Len(rows)
    /\ \A i \in 1..Len(rows) : rows'[i].id = rows[i].id /\ rows'[i].domain = rows[i].domain

\* no two rows for one domain
OneRowPerDomain == \A i, j \in 1..Len(rows) : rows[i].domain = rows[j].domain => i = j

\* C17: whatever the calls in flight do and in whatever order, the domain of
\* a row is never changed, and the table never holds two rows for one domain.
C17_DomainIdentity == [][DomainsKept /\ OneRowPerDomain']_vars

\* two calls found no row for the domain and both came to insert one: the
\* second insert was refused, and a call has since updated the row
C17_Witness ==
    /\ Len(rows) = 1 /\ rows[1].domain = ConcurrentDomain
    /\ \E c \in Calls : calls[c].threw = "UniqueViolation"
    /\ rows[1].lastExpiryNotificationSent.k = "number"

====
